---- MODULE Spec2Model ----
(***************************************************************************)
(* Inventory catalog of src/part1.py (module-level functions with          *)
(* hand-written sorts) and src/part2.py (class Inventory with the built-in *)
(* sorted, plus the interactive query loop).                               *)
(*                                                                         *)
(* Strings are sequences of code points, so that str.lower,                *)
(* str.capitalize and the ordering of strings are computed, not assumed.   *)
(* An optional value (Python None or a value) is a set with at most one    *)
(* element: {} is None.                                                    *)
(***************************************************************************)
EXTENDS Integers, Sequences, FiniteSets, TLC

VARIABLES
    pc,                 \* where the run is: attrs, prices, dates, ready, awaiting, done, crashed
    manufacturer_data,  \* insertion-ordered dict: sequence of attribute records, one per item_id
    price_data,         \* dict item_id -> price
    service_date_data,  \* dict item_id -> date (a day number)
    today,              \* what datetime.date.today() returns during the run
    user_input,         \* the words of the last line read by the query loop, lowercased
    out                 \* what the last operation emitted, and the exception it raised

vars == <<pc, manufacturer_data, price_data, service_date_data, today, user_input, out>>

-----------------------------------------------------------------------------
(* Bounds of the model *)

MaxItems == 3        \* distinct item ids in the input files of the reports
MaxQueryItems == 2   \* distinct item ids in the input files of the query session
MaxDate == 3    \* days 1..MaxDate

-----------------------------------------------------------------------------
(* Input alphabet. A name is the sequence of its code points. *)

Acme == <<65, 99>>       \* "Ac"
acme == <<97, 99>>       \* "ac"
Bolt == <<66, 111>>      \* "Bo"
bolt == <<98, 111>>      \* "bo"
Widget == <<87, 105>>    \* "Wi"
widget == <<119, 105>>   \* "wi"
gadget == <<103, 97>>    \* "ga"
Flag == <<100>>          \* "d", a damaged marker
LetterQ == <<81>>        \* "Q"

\* item ids "1", "2", ... of the first n
ids(n) == {<<48 + i>> : i \in 1..n}
Dates == 1..MaxDate

\* the lines of an attribute file, each the fields left by split(',') and strip():
\* three fields, or four with a damaged marker
attr_lines(I, M, T, K) ==
    {<<i, m, t>> : i \in I, m \in M, t \in T}
    \cup {<<i, m, t, k>> : i \in I, m \in M, t \in T, k \in K}

\* the lines of a price or service file; the second field is {v} for a text that
\* float() or strptime() reads as v, and {} for a text they reject
value_lines(I, V) == {<<i, v>> : i \in I, v \in V}

-----------------------------------------------------------------------------
(* Python strings *)

lower_char(c) == IF c >= 65 /\ c <= 90 THEN c + 32 ELSE c

upper_char(c) == IF c >= 97 /\ c <= 122 THEN c - 32 ELSE c

lower(s) == [i \in 1..Len(s) |-> lower_char(s[i])]

capitalize(s) == [i \in 1..Len(s) |-> IF i = 1 THEN upper_char(s[i]) ELSE lower_char(s[i])]

\* a < b for two str: by code point, a proper prefix is smaller
str_lt(a, b) ==
    \E k \in 1..Len(b) :
        /\ Len(a) >= k - 1
        /\ \A i \in 1..(k - 1) : a[i] = b[i]
        /\ (Len(a) = k - 1 \/ a[k] < b[k])

\* bool(x) of an optional string: None and '' are false
truthy(d) == d /= {} /\ d /= {<<>>}

\* the value of an optional that is not None
the(d) == CHOOSE x \in d : TRUE

-----------------------------------------------------------------------------
(* Python dict, insertion ordered: d[key] = rec on a sequence of records *)

has_key(d, key) == \E i \in 1..Len(d) : d[i].item_id = key

dict_set(d, key, rec) ==
    IF has_key(d, key)
    THEN [i \in 1..Len(d) |-> IF d[i].item_id = key THEN rec ELSE d[i]]
    ELSE Append(d, rec)

\* d[key] = v on an unordered map
map_set(m, key, v) == [k \in DOMAIN m \cup {key} |-> IF k = key THEN v ELSE m[k]]

\* d.get(key, None)
map_get(m, key) == IF key \in DOMAIN m THEN {m[key]} ELSE {}

NoOut == [op |-> "", lines |-> <<>>, files |-> <<>>, err |-> ""]

\* an uncaught exception ends the run
Raise(op, exc) ==
    /\ pc' = "crashed"
    /\ out' = [op |-> op, lines |-> <<>>, files |-> <<>>, err |-> exc]

-----------------------------------------------------------------------------
(* Ingestion: one action per line read, one per end of file *)

\* float(text): text is {} when it is no number literal, {v} when it denotes v
float_raises(text) == text = {}

\* strptime(text, '%m/%d/%Y'): text is {} when it is not in that form
strptime_raises(text) == text = {}

attribute_record(parts) ==
    [item_id |-> parts[1],
     manufacturer |-> parts[2],
     item_type |-> parts[3],
     damaged |-> IF Len(parts) > 3 THEN {parts[4]} ELSE {}]

ReadManufacturerLine(parts) ==
    /\ pc = "attrs"
    /\ IF Len(parts) < 3
       THEN Raise("read_manufacturer_list", "IndexError")
            /\ UNCHANGED manufacturer_data
       ELSE /\ manufacturer_data' =
                   dict_set(manufacturer_data, parts[1], attribute_record(parts))
            /\ UNCHANGED <<pc, out>>
    /\ UNCHANGED <<price_data, service_date_data, today, user_input>>

EndManufacturerList ==
    /\ pc = "attrs"
    /\ pc' = "prices"
    /\ UNCHANGED <<manufacturer_data, price_data, service_date_data, today, user_input, out>>

ReadPriceLine(parts) ==
    /\ pc = "prices"
    /\ IF float_raises(parts[2])
       THEN Raise("read_price_list", "ValueError")
            /\ UNCHANGED price_data
       ELSE /\ price_data' = map_set(price_data, parts[1], the(parts[2]))
            /\ UNCHANGED <<pc, out>>
    /\ UNCHANGED <<manufacturer_data, service_date_data, today, user_input>>

EndPriceList ==
    /\ pc = "prices"
    /\ pc' = "dates"
    /\ UNCHANGED <<manufacturer_data, price_data, service_date_data, today, user_input, out>>

ReadServiceLine(parts) ==
    /\ pc = "dates"
    /\ IF strptime_raises(parts[2])
       THEN Raise("read_service_dates_list", "ValueError")
            /\ UNCHANGED service_date_data
       ELSE /\ service_date_data' = map_set(service_date_data, parts[1], the(parts[2]))
            /\ UNCHANGED <<pc, out>>
    /\ UNCHANGED <<manufacturer_data, price_data, today, user_input>>

EndServiceDatesList ==
    /\ pc = "dates"
    /\ pc' = "ready"
    /\ UNCHANGED <<manufacturer_data, price_data, service_date_data, today, user_input, out>>

-----------------------------------------------------------------------------
(* Joined items and their emission *)

\* price_data.get(item_id, 0)
price_of(item_id) == IF item_id \in DOMAIN price_data THEN price_data[item_id] ELSE 0

\* the dictionary appended for one attribute record
joined_item(details) ==
    [item_id |-> details.item_id,
     manufacturer |-> details.manufacturer,
     item_type |-> details.item_type,
     price |-> price_of(details.item_id),
     service_date |-> map_get(service_date_data, details.item_id),
     damaged |-> details.damaged]

\* the subsequence of s whose elements satisfy Keep, in order
RECURSIVE select_seq(_, _)
select_seq(s, keep) ==
    IF s = <<>> THEN <<>>
    ELSE LET rest == select_seq(SubSeq(s, 1, Len(s) - 1), keep)
         IN  IF Len(s) \in keep THEN Append(rest, s[Len(s)]) ELSE rest

\* item['damaged'] or ''
damaged_text(item) == IF truthy(item.damaged) THEN the(item.damaged) ELSE <<>>

\* one written line of a layout; service_date.strftime needs a date
output_line(item, layout) ==
    CASE layout = "full" ->
            [item_id |-> item.item_id,
             manufacturer |-> item.manufacturer,
             item_type |-> item.item_type,
             price |-> item.price,
             service_date |-> the(item.service_date),
             damaged |-> damaged_text(item)]
      [] layout = "type" ->
            [item_id |-> item.item_id,
             manufacturer |-> item.manufacturer,
             price |-> item.price,
             service_date |-> the(item.service_date),
             damaged |-> damaged_text(item)]
      [] layout = "damaged" ->
            [item_id |-> item.item_id,
             manufacturer |-> item.manufacturer,
             item_type |-> item.item_type,
             price |-> item.price,
             service_date |-> the(item.service_date)]

\* how many lines are written before strftime is called on None
lines_written(items) ==
    CHOOSE n \in 0..Len(items) :
        /\ \A i \in 1..n : items[i].service_date /= {}
        /\ n < Len(items) => items[n + 1].service_date = {}

\* the file after "with open(output_file, 'w')" and the loop of writes
written_file(items, layout) ==
    [i \in 1..lines_written(items) |-> output_line(items[i], layout)]

write_error(items) == IF lines_written(items) < Len(items) THEN "AttributeError" ELSE ""

-----------------------------------------------------------------------------
(* Sorting *)

\* key(a) < key(b) for the key functions of part2
key_lt(a, b, by) ==
    CASE by = "manufacturer" -> str_lt(a.manufacturer, b.manufacturer)
      [] by = "item_id" -> str_lt(a.item_id, b.item_id)
      [] by = "service_date" -> the(a.service_date) < the(b.service_date)
      [] by = "neg_price" -> (0 - a.price) < (0 - b.price)

\* x put behind every element whose key is not greater
insert_stable(s, x, by) ==
    LET k == CHOOSE n \in 0..Len(s) :
                 /\ \A i \in 1..n : ~key_lt(x, s[i], by)
                 /\ n < Len(s) => key_lt(x, s[n + 1], by)
    IN  SubSeq(s, 1, k) \o <<x>> \o SubSeq(s, k + 1, Len(s))

\* the built-in sorted(list, key=...): a stable sort
RECURSIVE sorted(_, _)
sorted(s, by) ==
    IF s = <<>> THEN <<>>
    ELSE insert_stable(sorted(SubSeq(s, 1, Len(s) - 1), by), s[Len(s)], by)

\* the comparison that makes part1 swap inventory[i] and inventory[j]
swap_test(a, b, by) ==
    CASE by = "manufacturer" -> str_lt(b.manufacturer, a.manufacturer)
      [] by = "item_id" -> str_lt(b.item_id, a.item_id)
      [] by = "service_date" -> the(a.service_date) > the(b.service_date)
      [] by = "price" -> a.price < b.price

swap(inv, i, j) == [inv EXCEPT ![i] = inv[j], ![j] = inv[i]]

\* for j in range(i + 1, len(inventory)), positions counted from 1
RECURSIVE inner_loop(_, _, _, _)
inner_loop(inv, i, j, by) ==
    IF j > Len(inv) THEN inv
    ELSE inner_loop(IF swap_test(inv[i], inv[j], by) THEN swap(inv, i, j) ELSE inv,
                    i, j + 1, by)

\* for i in range(len(inventory))
RECURSIVE outer_loop(_, _, _)
outer_loop(inv, i, by) ==
    IF i > Len(inv) THEN inv
    ELSE outer_loop(inner_loop(inv, i, i + 1, by), i + 1, by)

sort_by_manufacturer(inventory) == outer_loop(inventory, 1, "manufacturer")

sort_by_item_id(inventory) == outer_loop(inventory, 1, "item_id")

sort_by_service_date(inventory) == outer_loop(inventory, 1, "service_date")

sort_by_price(inventory) == outer_loop(inventory, 1, "price")

-----------------------------------------------------------------------------
(* Reports *)

\* the list built from manufacturer_data.items()
inventory_list == [i \in 1..Len(manufacturer_data) |-> joined_item(manufacturer_data[i])]

\* a report call returns, or raises and ends the run
\* the maps had a report sorted the attribute map itself by item_id
maps_sorted_in_place ==
    [manufacturer_data |-> sort_by_item_id(manufacturer_data),
     price_data |-> price_data,
     service_date_data |-> service_date_data]

\* The maps a report or a query leaves behind. A report iterates .items() and reads
\* with .get(); it appends new dicts to a list of its own and sorts that list. The
\* query builds two sets and two lists of its own and reads with .get(item_id, today),
\* which inserts nothing.
maps_after_call ==
    [manufacturer_data |-> manufacturer_data,
     price_data |-> price_data,
     service_date_data |-> service_date_data]

LeaveMaps ==
    /\ manufacturer_data' = maps_after_call.manufacturer_data
    /\ price_data' = maps_after_call.price_data
    /\ service_date_data' = maps_after_call.service_date_data

Report(op, lines, files, err) ==
    /\ pc = "ready"
    /\ out' = [op |-> op, lines |-> lines, files |-> files, err |-> err]
    /\ pc' = IF err = "" THEN "ready" ELSE "crashed"
    /\ LeaveMaps
    /\ UNCHANGED <<today, user_input>>

full_inventory_part1 == sort_by_manufacturer(inventory_list)

full_inventory_part2 == sorted(inventory_list, "manufacturer")

WriteFullInventory1 ==
    Report("part1.write_full_inventory", written_file(full_inventory_part1, "full"), <<>>,
           write_error(full_inventory_part1))

WriteFullInventory2 ==
    Report("part2.write_full_inventory", written_file(full_inventory_part2, "full"), <<>>,
           write_error(full_inventory_part2))

\* is_past with the boundary included
is_past_or_today(item) == item.service_date /= {} /\ the(item.service_date) <= today

\* service_date and service_date < today
is_past(item) == item.service_date /= {} /\ the(item.service_date) < today

past_service_items ==
    select_seq(inventory_list, {i \in 1..Len(inventory_list) : is_past(inventory_list[i])})

past_service_part1 == sort_by_service_date(past_service_items)

past_service_part2 == sorted(past_service_items, "service_date")

WritePastServiceDateInventory1 ==
    Report("part1.write_past_service_date_inventory", written_file(past_service_part1, "full"),
           <<>>, write_error(past_service_part1))

WritePastServiceDateInventory2 ==
    Report("part2.write_past_service_date_inventory", written_file(past_service_part2, "full"),
           <<>>, write_error(past_service_part2))

\* if details['damaged']
damaged_items ==
    select_seq(inventory_list,
               {i \in 1..Len(inventory_list) : truthy(inventory_list[i].damaged)})

damaged_part1 == sort_by_price(damaged_items)

damaged_part2 == sorted(damaged_items, "neg_price")

WriteDamagedInventory1 ==
    Report("part1.write_damaged_inventory", written_file(damaged_part1, "damaged"), <<>>,
           write_error(damaged_part1))

WriteDamagedInventory2 ==
    Report("part2.write_damaged_inventory", written_file(damaged_part2, "damaged"), <<>>,
           write_error(damaged_part2))

\* the dictionary appended to a group: a joined item without its item_type
group_item(details) ==
    [item_id |-> details.item_id,
     manufacturer |-> details.manufacturer,
     price |-> price_of(details.item_id),
     service_date |-> map_get(service_date_data, details.item_id),
     damaged |-> details.damaged]

group_index(groups, item_type) ==
    CHOOSE k \in 0..Len(groups) :
        IF \E i \in 1..Len(groups) : groups[i].item_type = item_type
        THEN k > 0 /\ groups[k].item_type = item_type
        ELSE k = 0

\* item_type_groups after the first n attribute records: a dict in insertion order
RECURSIVE item_type_groups(_)
item_type_groups(n) ==
    IF n = 0 THEN <<>>
    ELSE LET groups == item_type_groups(n - 1)
             details == manufacturer_data[n]
             k == group_index(groups, details.item_type)
         IN  IF k = 0
             THEN Append(groups, [item_type |-> details.item_type,
                                  items |-> <<group_item(details)>>])
             ELSE [groups EXCEPT ![k].items = Append(@, group_item(details))]

sort_group(items, part) ==
    IF part = 1 THEN sort_by_item_id(items) ELSE sorted(items, "item_id")

\* the files on disk after the loop over the groups from group k on; the key of a
\* file is item_type.capitalize(), the part of its name that varies
RECURSIVE write_groups(_, _, _, _)
write_groups(groups, k, files, part) ==
    IF k > Len(groups) THEN [files |-> files, err |-> ""]
    ELSE LET items == sort_group(groups[k].items, part)
             after == map_set(files, capitalize(groups[k].item_type),
                              written_file(items, "type"))
         IN  IF write_error(items) /= ""
             THEN [files |-> after, err |-> write_error(items)]
             ELSE write_groups(groups, k + 1, after, part)

item_type_files(part) == write_groups(item_type_groups(Len(manufacturer_data)), 1, <<>>, part)

WriteItemTypeInventories1 ==
    Report("part1.write_item_type_inventories", <<>>, item_type_files(1).files,
           item_type_files(1).err)

WriteItemTypeInventories2 ==
    Report("part2.write_item_type_inventories", <<>>, item_type_files(2).files,
           item_type_files(2).err)

-----------------------------------------------------------------------------
(* The query loop of part2 *)

\* input(...).strip().lower().split() of a line given as its words
lowered(line) == [i \in 1..Len(line) |-> lower(line[i])]

\* user_input == 'q'
is_quit(words) == words = <<<<113>>>>

\* manufacturers taken from the undamaged records only
manufacturers_undamaged ==
    {lower(manufacturer_data[i].manufacturer) :
         i \in {j \in 1..Len(manufacturer_data) : ~truthy(manufacturer_data[j].damaged)}}

manufacturers == {lower(manufacturer_data[i].manufacturer) : i \in 1..Len(manufacturer_data)}

item_types == {lower(manufacturer_data[i].item_type) : i \in 1..Len(manufacturer_data)}

input_manufacturers(words) == select_seq(words, {i \in 1..Len(words) : words[i] \in manufacturers})

input_item_types(words) == select_seq(words, {i \in 1..Len(words) : words[i] \in item_types})

\* in_service with the boundary excluded
in_service_after_today(item_id) ==
    (IF item_id \in DOMAIN service_date_data THEN service_date_data[item_id] ELSE today) > today

\* service_date_data.get(item_id, today) >= today
in_service(item_id) ==
    (IF item_id \in DOMAIN service_date_data THEN service_date_data[item_id] ELSE today) >= today

found_item(details) ==
    [item_id |-> details.item_id,
     manufacturer |-> details.manufacturer,
     item_type |-> details.item_type,
     price |-> price_of(details.item_id)]

all_found == [i \in 1..Len(manufacturer_data) |-> found_item(manufacturer_data[i])]

is_match(details, manufacturer, item_type) ==
    /\ lower(details.manufacturer) = manufacturer
    /\ lower(details.item_type) = item_type
    /\ ~truthy(details.damaged)
    /\ in_service(details.item_id)

found_items(manufacturer, item_type) ==
    select_seq(all_found,
               {i \in 1..Len(manufacturer_data) :
                    is_match(manufacturer_data[i], manufacturer, item_type)})

is_alternative(details, manufacturer, item_type) ==
    /\ lower(details.item_type) = item_type
    /\ lower(details.manufacturer) /= manufacturer
    /\ ~truthy(details.damaged)
    /\ in_service(details.item_id)

alternatives(manufacturer, item_type) ==
    select_seq(all_found,
               {i \in 1..Len(manufacturer_data) :
                    is_alternative(manufacturer_data[i], manufacturer, item_type)})

\* max(items, key=price): the first item of the greatest price
max_by_price(items) ==
    items[CHOOSE i \in 1..Len(items) :
              /\ \A j \in 1..Len(items) : items[j].price <= items[i].price
              /\ \A j \in 1..(i - 1) : items[j].price < items[i].price]

abs(x) == IF x < 0 THEN 0 - x ELSE x

\* closest_by_price without abs: the first item of the least signed difference
closest_by_signed_difference(items, price) ==
    items[CHOOSE i \in 1..Len(items) :
              /\ \A j \in 1..Len(items) : items[i].price - price <= items[j].price - price
              /\ \A j \in 1..(i - 1) : items[j].price - price > items[i].price - price]

\* min(items, key=abs(price - selected price)): the first item of the least distance
closest_by_price(items, price) ==
    items[CHOOSE i \in 1..Len(items) :
              /\ \A j \in 1..Len(items) :
                     abs(items[i].price - price) <= abs(items[j].price - price)
              /\ \A j \in 1..(i - 1) :
                     abs(items[j].price - price) > abs(items[i].price - price)]

NoSuchItem == <<[kind |-> "No such item in inventory", item |-> {}]>>

\* what one pass of the loop body prints for the words of a line
printed(words) ==
    IF Len(input_manufacturers(words)) /= 1 \/ Len(input_item_types(words)) /= 1
    THEN NoSuchItem
    ELSE LET manufacturer == input_manufacturers(words)[1]
             item_type == input_item_types(words)[1]
             found == found_items(manufacturer, item_type)
             alts == alternatives(manufacturer, item_type)
         IN  IF found = <<>> THEN NoSuchItem
             ELSE LET selected_item == max_by_price(found)
                  IN  <<[kind |-> "Your item is", item |-> {selected_item}]>>
                      \o (IF alts = <<>> THEN <<>>
                          ELSE <<[kind |-> "You may, also, consider",
                                  item |-> {closest_by_price(alts, selected_item.price)}]>>)

\* query_inventory is called: the welcome line, today is read
QueryStart ==
    /\ pc = "ready"
    /\ pc' = "awaiting"
    /\ user_input' = <<>>
    /\ out' = [op |-> "query_inventory", lines |-> <<>>, files |-> <<>>, err |-> ""]
    /\ LeaveMaps
    /\ UNCHANGED today

\* input() returns a line: break on the quit token, else one pass of the loop body
QueryLine(line) ==
    /\ pc = "awaiting"
    /\ user_input' = lowered(line)
    /\ IF is_quit(lowered(line))
       THEN /\ pc' = "done"
            /\ out' = [op |-> "query_inventory", lines |-> <<>>, files |-> <<>>, err |-> ""]
       ELSE /\ pc' = "awaiting"
            /\ out' = [op |-> "query", lines |-> printed(lowered(line)),
                       files |-> <<>>, err |-> ""]
    /\ LeaveMaps
    /\ UNCHANGED today

\* input() at the end of the input raises EOFError, which nothing catches
QueryEOF ==
    /\ pc = "awaiting"
    /\ Raise("query_inventory", "EOFError")
    /\ LeaveMaps
    /\ UNCHANGED <<today, user_input>>

-----------------------------------------------------------------------------

InitAt(days) ==
    /\ pc = "attrs"
    /\ manufacturer_data = <<>>
    /\ price_data = <<>>
    /\ service_date_data = <<>>
    /\ today \in days
    /\ user_input = <<>>
    /\ out = NoOut

\* main reads the three files in turn
Ingest(attrs, prices, services) ==
    \/ \E parts \in attrs : ReadManufacturerLine(parts)
    \/ EndManufacturerList
    \/ \E parts \in prices : ReadPriceLine(parts)
    \/ EndPriceList
    \/ \E parts \in services : ReadServiceLine(parts)
    \/ EndServiceDatesList

Query(lines) ==
    \/ QueryStart
    \/ \E line \in lines : QueryLine(line)
    \/ QueryEOF

-----------------------------------------------------------------------------
(* Full catalog: three manufacturers that order as Acme < Bolt < acme *)

FullIds == ids(MaxItems)

NextFull ==
    \/ Ingest(attr_lines(FullIds, {Acme, Bolt, acme}, {Widget}, {}),
              value_lines(FullIds, {{10}}),
              value_lines(FullIds, {{1}}))
    \/ WriteFullInventory1
    \/ WriteFullInventory2

SpecFull == InitAt({2}) /\ [][NextFull]_vars

-----------------------------------------------------------------------------
(* Per-type catalogs: two types that differ in case only, and a third *)

NextTypes ==
    \/ Ingest(attr_lines(FullIds, {Acme}, {Widget, widget, gadget}, {}),
              value_lines(FullIds, {{10}}),
              value_lines(FullIds, {{1}}))
    \/ WriteItemTypeInventories1
    \/ WriteItemTypeInventories2

SpecTypes == InitAt({2}) /\ [][NextTypes]_vars

-----------------------------------------------------------------------------
(* Overdue-service catalog: every date, today the last day or the day before *)

NextOverdue ==
    \/ Ingest(attr_lines(FullIds, {Acme}, {Widget}, {}),
              value_lines(ids(1), {{10}}),
              value_lines(FullIds, {{d} : d \in Dates}))
    \/ WritePastServiceDateInventory1
    \/ WritePastServiceDateInventory2

SpecOverdue == InitAt({MaxDate - 1, MaxDate}) /\ [][NextOverdue]_vars

-----------------------------------------------------------------------------
(* Damaged catalog: the marker absent, empty or set; prices below and above 0 *)

NextDamaged ==
    \/ Ingest(attr_lines(FullIds, {Acme}, {Widget}, {<<>>, Flag}),
              value_lines(FullIds, {{0 - 10}, {10}}),
              value_lines(FullIds, {{1}}))
    \/ WriteDamagedInventory1
    \/ WriteDamagedInventory2

SpecDamaged == InitAt({2}) /\ [][NextDamaged]_vars

-----------------------------------------------------------------------------
(* Ingestion of malformed records: empty fields, a missing field, a negative  *)
(* price, a price or a date that does not parse                               *)

IngestIds == ids(MaxQueryItems)

NextIngest ==
    Ingest(attr_lines(IngestIds, {<<>>, Acme}, {<<>>, Widget}, {Flag})
               \cup {<<i, Acme>> : i \in IngestIds},
           value_lines(IngestIds, {{0 - 10}, {10}, {}}),
           value_lines(IngestIds, {{1}, {}}))

SpecIngest == InitAt({2}) /\ [][NextIngest]_vars

-----------------------------------------------------------------------------
(* Query session over every combination of the fields of two items *)

QueryIds == ids(MaxQueryItems)

\* the lines typed: no word, one word, a manufacturer and a type in either order,
\* a pair that may not exist, two manufacturers, two types, a word twice, the quit
\* token in upper case and the quit token twice
QueryLines ==
    {<<>>, <<Acme>>, <<Widget>>, <<Acme, Widget>>, <<Widget, Acme>>, <<bolt, Widget>>,
     <<Acme, gadget>>, <<Acme, bolt, Widget>>, <<Acme, Widget, gadget>>,
     <<Acme, Acme, Widget>>, <<LetterQ>>, <<LetterQ, LetterQ>>}

NextQuery ==
    \/ Ingest(attr_lines(QueryIds, {Acme, Bolt}, {Widget, gadget}, {<<>>, Flag}),
              value_lines(QueryIds, {{10}}),
              value_lines(QueryIds, {{d} : d \in Dates}))
    \/ Query(QueryLines)

SpecQuery == InitAt({2}) /\ [][NextQuery]_vars

-----------------------------------------------------------------------------
(* Query session over three items of one type: the choice of the alternative. *)
(* Prices lie on both sides of the default 0, which the third item keeps; the  *)
(* first item may be overdue.                                                 *)

AltLines == {<<Acme, Widget>>, <<bolt, Widget>>, <<Widget>>, <<LetterQ>>}

NextAlt ==
    \/ Ingest(attr_lines(FullIds, {Acme, Bolt}, {Widget}, {}),
              value_lines(ids(2), {{0 - 10}, {10}}),
              value_lines(ids(1), {{1}}))
    \/ Query(AltLines)

SpecAlt == InitAt({2}) /\ [][NextAlt]_vars

-----------------------------------------------------------------------------
(* The whole of main: the three files, then the reports of either part in any *)
(* order and any number of times, then the query session. The attribute lines *)
(* come in any order of identifier; an item may be damaged, priced or not,    *)
(* and overdue, in service or without a service date.                         *)

StoreLines == {<<Acme, Widget>>, <<bolt, Widget>>, <<Widget>>, <<LetterQ>>}

NextStore ==
    \/ Ingest(attr_lines(QueryIds, {Acme, Bolt}, {Widget}, {Flag}),
              value_lines(ids(1), {{10}}),
              value_lines(ids(2), {{1}, {MaxDate}}))
    \/ WriteFullInventory1
    \/ WriteFullInventory2
    \/ WriteItemTypeInventories1
    \/ WriteItemTypeInventories2
    \/ WritePastServiceDateInventory1
    \/ WritePastServiceDateInventory2
    \/ WriteDamagedInventory1
    \/ WriteDamagedInventory2
    \/ Query(StoreLines)

SpecStore == InitAt({2}) /\ [][NextStore]_vars

-----------------------------------------------------------------------------
(* The claims. Their vocabulary is defined here from the store alone, apart *)
(* from the operators of the model above.                                   *)

Records == 1..Len(manufacturer_data)

IdAt(i) == manufacturer_data[i].item_id

PositionOf(item_id) == CHOOSE i \in Records : IdAt(i) = item_id

PriceAt(i) == IF IdAt(i) \in DOMAIN price_data THEN price_data[IdAt(i)] ELSE 0

HasDate(i) == IdAt(i) \in DOMAIN service_date_data

DateAt(i) == service_date_data[IdAt(i)]

Undamaged(i) == manufacturer_data[i].damaged \in {{}, {<<>>}}

\* service date absent or not earlier than today
Serviceable(i) == ~HasDate(i) \/ DateAt(i) >= today

\* the words of the line that name a manufacturer, or an item type, of the store
ManufacturerTokens ==
    {k \in 1..Len(user_input) :
         \E i \in Records : lower(manufacturer_data[i].manufacturer) = user_input[k]}

TypeTokens ==
    {k \in 1..Len(user_input) :
         \E i \in Records : lower(manufacturer_data[i].item_type) = user_input[k]}

Resolves == Cardinality(ManufacturerTokens) = 1 /\ Cardinality(TypeTokens) = 1

ResolvedManufacturer == user_input[CHOOSE k \in ManufacturerTokens : TRUE]

ResolvedType == user_input[CHOOSE k \in TypeTokens : TRUE]

\* a line was answered and the loop awaits the next
Answered == pc = "awaiting" /\ out.op = "query"

Candidates ==
    {i \in Records :
         /\ lower(manufacturer_data[i].manufacturer) = ResolvedManufacturer
         /\ lower(manufacturer_data[i].item_type) = ResolvedType
         /\ Undamaged(i)
         /\ Serviceable(i)}

\* the record of greatest price, the first ingested among equals
FirstOfMaxPrice(S) ==
    CHOOSE i \in S : \A j \in S : PriceAt(j) < PriceAt(i) \/ (PriceAt(j) = PriceAt(i) /\ i <= j)

Reported(i) ==
    [item_id |-> IdAt(i),
     manufacturer |-> manufacturer_data[i].manufacturer,
     item_type |-> manufacturer_data[i].item_type,
     price |-> PriceAt(i)]

IsNoMatch == out.lines = <<[kind |-> "No such item in inventory", item |-> {}]>>

HasPrimary == Len(out.lines) >= 1 /\ out.lines[1].kind = "Your item is"

\* C1: when the words of a line resolve to a manufacturer M and a type T, the primary
\* reported is the item of maximum price among the undamaged items of M and T
\* (case-insensitive) whose service date is absent or not before today, the first
\* ingested among items of equal price; "No such item in inventory" is reported
\* exactly when there is no such item.
C1_PrimaryIsFirstOfMaxPrice ==
    (Answered /\ Resolves) =>
        IF Candidates = {}
        THEN IsNoMatch
        ELSE /\ HasPrimary
             /\ out.lines[1].item = {Reported(FirstOfMaxPrice(Candidates))}
             /\ \A k \in 1..Len(out.lines) : out.lines[k].kind /= "No such item in inventory"

\* C1 witness: the primary reported has today as its service date, and a candidate
\* ingested after it has the same price.
C1_Witness ==
    /\ Answered /\ Resolves /\ HasPrimary
    /\ \E i, j \in Candidates :
           /\ i < j
           /\ PriceAt(i) = PriceAt(j)
           /\ HasDate(i) /\ DateAt(i) = today
           /\ out.lines[1].item = {Reported(i)}

AlternativeCandidates ==
    {i \in Records :
         /\ lower(manufacturer_data[i].item_type) = ResolvedType
         /\ lower(manufacturer_data[i].manufacturer) /= ResolvedManufacturer
         /\ Undamaged(i)
         /\ Serviceable(i)}

Distance(i, price) == IF PriceAt(i) >= price THEN PriceAt(i) - price ELSE price - PriceAt(i)

\* the record whose price is nearest to price, the first ingested among equals
FirstOfNearest(S, price) ==
    CHOOSE i \in S :
        \A j \in S : Distance(i, price) < Distance(j, price)
                     \/ (Distance(i, price) = Distance(j, price) /\ i <= j)

AlternativeLines == {k \in 1..Len(out.lines) : out.lines[k].kind = "You may, also, consider"}

\* C2: when a primary P is reported, the alternative reported is the undamaged item
\* of the resolved type and of another manufacturer, with service date absent or not
\* before today, whose price is nearest to P's, the first ingested among equals; no
\* alternative line is printed exactly when there is no such item; and an
\* alternative is never printed without a primary.
C2_AlternativeIsFirstOfNearest ==
    Answered =>
        /\ AlternativeLines /= {} => HasPrimary /\ AlternativeLines = {2}
        /\ HasPrimary =>
               /\ Resolves
               /\ (AlternativeCandidates = {}) <=> (AlternativeLines = {})
               /\ AlternativeCandidates /= {} =>
                      out.lines[2].item =
                          {Reported(FirstOfNearest(AlternativeCandidates,
                                                   (the(out.lines[1].item)).price))}

\* C2 witness: an alternative was reported although a later one is as near to the
\* primary's price, on the other side of it.
C2_Witness ==
    /\ Answered /\ HasPrimary /\ AlternativeLines = {2}
    /\ \E i, j \in AlternativeCandidates :
           /\ i < j
           /\ PriceAt(i) /= PriceAt(j)
           /\ Distance(i, (the(out.lines[1].item)).price)
                  = Distance(j, (the(out.lines[1].item)).price)
           /\ out.lines[2].item = {Reported(i)}

\* C3: a line that does not hold exactly one word matching a lowercased manufacturer
\* of the store and exactly one word matching a lowercased item type of the store,
\* the names taken from all records, damaged and overdue ones too, is answered by
\* the single line "No such item in inventory": no primary, no alternative.
C3_NoMatchUnlessOneOfEach == (Answered /\ ~Resolves) => IsNoMatch

\* C3 witness: a line with two manufacturer words and one type word was answered,
\* one of the two manufacturers being named by a damaged record only, while the
\* other has an item that would have been reported.
C3_Witness ==
    /\ Answered /\ IsNoMatch
    /\ Cardinality(ManufacturerTokens) = 2 /\ Cardinality(TypeTokens) = 1
    /\ \E k \in ManufacturerTokens :
           \A i \in Records :
               lower(manufacturer_data[i].manufacturer) = user_input[k] => ~Undamaged(i)
    /\ \E i \in Records :
           /\ \E k \in ManufacturerTokens :
                  lower(manufacturer_data[i].manufacturer) = user_input[k]
           /\ lower(manufacturer_data[i].item_type) = ResolvedType
           /\ Undamaged(i) /\ Serviceable(i)

FullOps == {"part1.write_full_inventory", "part2.write_full_inventory"}

LineIds(lines) == {lines[k].item_id : k \in 1..Len(lines)}

\* C4: the Full Catalog written by part1 and by part2 is ordered by manufacturer
\* name ascending, by code point, and two items of the same manufacturer name are in
\* their ingestion order; a call that returns has written one line per joined item.
\* (A call that raises is C8's matter: what it wrote is a prefix of the sorted list,
\* and is held to the order only.)
C4_FullCatalogOrderedStable ==
    out.op \in FullOps =>
        /\ out.err = "" =>
               /\ Len(out.lines) = Len(manufacturer_data)
               /\ LineIds(out.lines) = {IdAt(i) : i \in Records}
        /\ \A k, l \in 1..Len(out.lines) :
               k < l =>
                   /\ ~str_lt(out.lines[l].manufacturer, out.lines[k].manufacturer)
                   /\ out.lines[k].manufacturer = out.lines[l].manufacturer =>
                          PositionOf(out.lines[k].item_id) < PositionOf(out.lines[l].item_id)

PastOps == {"part1.write_past_service_date_inventory",
            "part2.write_past_service_date_inventory"}

Overdue == {i \in Records : HasDate(i) /\ DateAt(i) < today}

\* C5: the Overdue-Service Catalog holds exactly the attribute records whose service
\* date is present and strictly before today, each once and with its date, never one
\* without a service date or with a date of today or later, in ascending order of
\* service date; the call does not raise.
C5_OverdueExactAndAscending ==
    out.op \in PastOps =>
        /\ out.err = ""
        /\ Len(out.lines) = Cardinality(Overdue)
        /\ LineIds(out.lines) = {IdAt(i) : i \in Overdue}
        /\ \A k \in 1..Len(out.lines) :
               /\ out.lines[k].service_date = DateAt(PositionOf(out.lines[k].item_id))
               /\ out.lines[k].manufacturer
                      = manufacturer_data[PositionOf(out.lines[k].item_id)].manufacturer
        /\ \A k, l \in 1..Len(out.lines) :
               k < l => out.lines[k].service_date <= out.lines[l].service_date

\* C5 witness: two overdue records were written oldest first, against their
\* ingestion order, and a record whose service date is today was left out.
C5_Witness ==
    /\ out.op \in PastOps
    /\ Len(out.lines) = 2
    /\ out.lines[1].service_date < out.lines[2].service_date
    /\ PositionOf(out.lines[1].item_id) > PositionOf(out.lines[2].item_id)
    /\ \E i \in Records : HasDate(i) /\ DateAt(i) = today

DamagedOps == {"part1.write_damaged_inventory", "part2.write_damaged_inventory"}

\* C6: the Damaged Catalog holds exactly the attribute records whose damaged marker
\* is present and not empty, each once, with price 0 for a record without a price,
\* in non-increasing order of price.
C6_DamagedExactAndDescending ==
    out.op \in DamagedOps =>
        /\ Len(out.lines) = Cardinality({i \in Records : ~Undamaged(i)})
        /\ LineIds(out.lines) = {IdAt(i) : i \in {j \in Records : ~Undamaged(j)}}
        /\ \A k \in 1..Len(out.lines) :
               out.lines[k].price = PriceAt(PositionOf(out.lines[k].item_id))
        /\ \A k, l \in 1..Len(out.lines) : k < l => out.lines[k].price >= out.lines[l].price

TypeOps == {"part1.write_item_type_inventories", "part2.write_item_type_inventories"}

ObservedTypes == {manufacturer_data[i].item_type : i \in Records}

OfType(T) == {i \in Records : manufacturer_data[i].item_type = T}

\* C7: after a call of write_item_type_inventories that returns, every item type T
\* of the store, types that differ in letter case only being different types, has
\* its own emitted sequence, which holds exactly the joined items whose item_type is
\* T, each once, in ascending order of identifier. The sequence emitted for T is the
\* file whose name is made from T.
C7_OneSequencePerExactType ==
    (out.op \in TypeOps /\ out.err = "") =>
        \A T \in ObservedTypes :
            /\ capitalize(T) \in DOMAIN out.files
            /\ LET file == out.files[capitalize(T)]
               IN  /\ Len(file) = Cardinality(OfType(T))
                   /\ LineIds(file) = {IdAt(i) : i \in OfType(T)}
                   /\ \A k, l \in 1..Len(file) :
                          k < l => str_lt(file[k].item_id, file[l].item_id)

\* C8: Full Catalog generation returns without an error for every store, also when
\* attribute records have no price record or no service record, and writes one line
\* per attribute identifier, the last record read for an identifier, with price 0
\* for a missing price; price and service records without an attribute record give
\* no line.
C8_FullCatalogCompletes ==
    out.op \in FullOps =>
        /\ out.err = ""
        /\ Len(out.lines) = Len(manufacturer_data)
        /\ LineIds(out.lines) = {IdAt(i) : i \in Records}
        /\ \A k \in 1..Len(out.lines) :
               out.lines[k].price = PriceAt(PositionOf(out.lines[k].item_id))

QueryOps == {"query_inventory", "query"}

QuitEntered == user_input = <<lower(LetterQ)>>

\* C9: in a query session no error is raised; a line other than the quit token gets
\* one outcome, a primary line with at most one alternative line or the single line
\* "No such item in inventory", and the loop awaits the next line; the session has
\* ended if and only if the last line entered is the quit token.
C9_SessionEndsOnlyOnQuit ==
    out.op \in QueryOps =>
        /\ out.err = ""
        /\ Answered =>
               \/ IsNoMatch
               \/ HasPrimary /\ Len(out.lines) = 1
               \/ HasPrimary /\ AlternativeLines = {2} /\ Len(out.lines) = 2
        /\ (pc \in {"done", "crashed"}) <=> QuitEntered

\* C10: no malformed record is in a map: no attribute record with an empty
\* manufacturer or item_type, no negative price.
C10_NoMalformedRecordStored ==
    /\ \A i \in Records :
           /\ manufacturer_data[i].manufacturer /= <<>>
           /\ manufacturer_data[i].item_type /= <<>>
    /\ \A item_id \in DOMAIN price_data : price_data[item_id] >= 0

ReportOps == FullOps \cup TypeOps \cup PastOps \cup DamagedOps

IngestionComplete == pc \in {"ready", "awaiting"}

\* the outcome a line gets from the maps as they are
Outcome(line) == printed(lowered(line))

====
